---- MODULE Spec2Model ----
(***************************************************************************)
(* Synthetic-telemetry generator (src/functions.py): the time-series       *)
(* synthesis engine (generate_baseline_timeseries, inject_anomaly), the    *)
(* summarizer (calculate_statistics), the per-metric wrappers and the      *)
(* scenario assembler built on them, and the routes of the HTTP layer      *)
(* (src/main.py) that serve them.                                          *)
(*                                                                         *)
(* Numbers.  The program computes in float64.  The model computes in       *)
(* decimal fixed point: a float x is the integer nearest to x * FScale,    *)
(* and every arithmetic operation rounds its result to that grid, as a     *)
(* float operation rounds to the nearest float.  round(x, 2) keeps the     *)
(* multiples of FScale / 100.                                              *)
(*                                                                         *)
(* Time.  A datetime is a whole number of minutes since the epoch (the     *)
(* program only ever subtracts whole minutes from `now`, so seconds and    *)
(* microseconds are carried along unchanged).  The ISO-8601 string the     *)
(* program stores is modelled by the calendar fields it spells:            *)
(* <<day, hour, minute>>.                                                  *)
(***************************************************************************)
EXTENDS Integers, Sequences, FiniteSets, TLC

VARIABLES
    pc,        \* position of the caller: "start", "given", "generated", "injected",
               \* "composed", "summarized"; of the server: "idle", "answered"
    now,       \* the instant utcnow() returned in the last generation
    data,      \* the series: a sequence of [timestamp, value]
    before,    \* the series as it was passed to the last inject_anomaly call
    call,      \* the last call and its arguments
    factors,   \* the factors the last inject_anomaly call multiplied by, in window order
    outcome,   \* "ok", or the exception the last call raised
    stats,     \* the summary the last calculate_statistics call returned
    history,   \* the inject_anomaly calls made on the series so far, oldest first,
               \* each with the series as it was passed to it
    request,   \* the HTTP request being served: its path and query parameters
    response   \* the answer to it: status, the handler that ran, the body

vars == <<pc, now, data, before, call, factors, outcome, stats, history,
          request, response>>

----------------------------------------------------------------------------
(* Fixed-point arithmetic *)

\* Resolution of the float model: two more decimal digits than round(x, 2) keeps.
FScale == 100 * 100

Abs(x) == IF x < 0 THEN -x ELSE x

Sign(x) == IF x < 0 THEN -1 ELSE 1

Max(a, b) == IF a >= b THEN a ELSE b

Min(a, b) == IF a <= b THEN a ELSE b

\* float from a decimal literal given in hundredths (60.0 is Fx(6000))
Fx(hundredths) == hundredths * (FScale \div 100)

\* a * b, rounded to the grid (the product is built from base-FScale digits
\* so that no intermediate leaves the machine integers)
FMul(a, b) ==
    LET x  == Abs(a)
        y  == Abs(b)
        xh == x \div FScale
        xl == x % FScale
        yh == y \div FScale
        yl == y % FScale
        m  == xh * yh * FScale + xh * yl + xl * yh
                 + (xl * yl + FScale \div 2) \div FScale
    IN  Sign(a) * Sign(b) * m

\* a / b for b > 0, rounded to the grid (long division, two digits at a time)
FDiv(a, b) ==
    LET x  == Abs(a)
        q0 == x \div b
        r0 == x % b
        q1 == (r0 * 100) \div b
        r1 == (r0 * 100) % b
        q2 == (r1 * 100) \div b
        r2 == (r1 * 100) % b
        up == IF 2 * r2 >= b THEN 1 ELSE 0
    IN  Sign(a) * (q0 * FScale + q1 * 100 + q2 + up)

\* Python's round(x, 2): to the nearest hundredth, a tie to the even one
Round2(x) ==
    LET u == FScale \div 100
        m == Abs(x)
        q == m \div u
        r == m % u
        k == IF 2 * r > u \/ (2 * r = u /\ q % 2 = 1) THEN q + 1 ELSE q
    IN  Sign(x) * k * u

\* sin(k * pi / 12) for k = 0..6, on the grid
SinQuarter == <<0, 2588, 5000, 7071, 8660, 9659, 10000>>

\* np.sin(k * np.pi / 12) for an integer k.  (float64 gives 1.2e-16 instead
\* of 0 at k = 12; added to 1.0 that is absorbed, so 0 models it.)
Sin12(k) ==
    LET j == k % 24
    IN  IF j <= 6 THEN SinQuarter[j + 1]
        ELSE IF j <= 12 THEN SinQuarter[12 - j + 1]
        ELSE IF j <= 18 THEN -SinQuarter[j - 12 + 1]
        ELSE -SinQuarter[24 - j + 1]

----------------------------------------------------------------------------
(* Time *)

\* datetime.hour
Hour(t) == (t \div 60) % 24

\* datetime.isoformat(): the fields the string spells
IsoFormat(t) == <<t \div 1440, Hour(t), t % 60>>

\* the instant an ISO string denotes (what a reader of the output parses)
Minutes(ts) == ts[1] * 1440 + ts[2] * 60 + ts[3]

----------------------------------------------------------------------------
(* Inputs *)

\* <<hours, interval_minutes>> of the generation calls
GenConfigs ==
    {<<1, 90>>, <<1, 60>>, <<1, 30>>, <<1, 20>>, <<1, 7>>, <<5, 10>>, <<24, 5>>}

\* baseline levels (floats)
Baselines == {Fx(0), Fx(6000)}

\* noise amplitudes (floats)
Noises == {Fx(0), Fx(500)}

\* Gaussian draws, in units of the noise amplitude
ZDraws == {-30, 1}

\* the random stream is a pattern of this many draws, repeated
NoisePeriod == 3

\* series longer than this are generated with noise 0 and LongBaseline only
MaxNoisyPoints == 8

LongBaseline == Fx(6000)

\* values of utcnow(): day 20000 at 00:00, 06:07 and 18:30
Nows == {20000 * 1440, 20000 * 1440 + 367, 20000 * 1440 + 1110}

NoStats == [error |-> "none"]

NoCall == [op |-> "none"]

NoRequest == [path |-> <<>>]

NoResponse == [status |-> 0]

----------------------------------------------------------------------------
(* generate_baseline_timeseries *)

\* points = int(hours * 60 / interval_minutes)
PointCountCeil(hours, interval_minutes) ==
    (hours * 60 + interval_minutes - 1) \div interval_minutes

PointCount(hours, interval_minutes) == (hours * 60) \div interval_minutes

\* timestamp = now - timedelta(minutes=(points - i) * interval_minutes)
TimestampAtEndingNow(t, points, i, interval_minutes) ==
    t - (points - 1 - i) * interval_minutes

TimestampAt(t, points, i, interval_minutes) ==
    t - (points - i) * interval_minutes

\* daily_factor = 1.0 + 0.3 * np.sin((hour - 6) * np.pi / 12)
DailyFactor(hour) == FScale + FMul(3000, Sin12(hour - 6))

\* np.random.normal(0, noise) for point i of the loop
Draw(zs, i, noise) == zs[(i % NoisePeriod) + 1] * noise

\* value = baseline * daily_factor + normal(0, noise); round(value, 2)
PointValueUnclamped(t, baseline, noise, z) ==
    Round2(FMul(baseline, DailyFactor(Hour(t))) + z)

\* value = max(0, baseline * daily_factor + normal(0, noise)); round(value, 2)
PointValue(t, baseline, noise, z) ==
    Round2(Max(0, FMul(baseline, DailyFactor(Hour(t))) + z))

BaselineSeries(hours, interval_minutes, baseline, noise, t, zs) ==
    LET points == PointCount(hours, interval_minutes)
    IN  [p \in 1..points |->
            LET ts == TimestampAt(t, points, p - 1, interval_minutes)
            IN  [timestamp |-> IsoFormat(ts),
                 value     |-> PointValue(ts, baseline, noise, Draw(zs, p - 1, noise))]]

GenerateBaselineTimeseries ==
    /\ pc = "start"
    /\ \E cfg \in GenConfigs, baseline \in Baselines, noise \in Noises, t \in Nows,
          zs \in [1..NoisePeriod -> ZDraws] :
          /\ PointCount(cfg[1], cfg[2]) > MaxNoisyPoints =>
                 noise = 0 /\ baseline = LongBaseline
          /\ now' = t
          /\ data' = BaselineSeries(cfg[1], cfg[2], baseline, noise, t, zs)
          /\ call' = [op |-> "generate", hours |-> cfg[1], interval_minutes |-> cfg[2],
                      baseline |-> baseline, noise |-> noise]
    /\ pc' = "generated"
    /\ outcome' = "ok"
    /\ UNCHANGED <<before, factors, stats, history, request, response>>

----------------------------------------------------------------------------
(* inject_anomaly *)

\* anomaly_type values; "sawtooth" stands for any string that is none of the three
AnomalyTypes == {"spike", "gradual", "drop", "sawtooth"}

\* start_percent and duration_percent, in hundredths (0.6 is 60)
StartPercents == {0, 60, 100}

DurationPercents == {10, 50, 100}

\* magnitude (floats): 0.5, 1.8, 2.0
Magnitudes == {Fx(50), Fx(180), Fx(200)}

\* the literal 0.3 of the drop branch
DropFactor == 3000

\* int(total * percent)
TruncIndex(total, percent) == (total * percent) \div 100

\* range(start_idx, min(start_idx + duration, total)), as 0-based indices
WindowIndicesShifted(total, start_idx, duration) ==
    {i \in 0..(total - 1) : start_idx + 1 <= i /\ i < start_idx + duration + 1}

WindowIndicesAtLeastOne(total, start_idx, duration) ==
    {i \in 0..(total - 1) : start_idx <= i /\ i < start_idx + Max(duration, 1)}

WindowIndices(total, start_idx, duration) ==
    {i \in 0..(total - 1) : start_idx <= i /\ i < Min(start_idx + duration, total)}

\* sum of the series num^j / (den^j * j!) from term j on, on the grid
RECURSIVE ExpSeries(_, _, _, _)
ExpSeries(term, j, num, den) ==
    IF term = 0 THEN 0
    ELSE term + ExpSeries((term * num) \div (den * (j + 1)), j + 1, num, den)

\* np.exp(-num / den) for 0 <= num <= 3 * den, on the grid: 1 / exp(num / den)
ExpNeg(num, den) ==
    LET e == ExpSeries(FScale, 0, num, den)
    IN  (FScale * FScale + e \div 2) \div e

\* factor = magnitude * np.exp(-(i - start_idx) / (duration / 3))
SpikeFactorGrowing(magnitude, k, duration) ==
    FMul(magnitude, ExpNeg(3 * (duration - k), duration))

SpikeFactor(magnitude, k, duration) == FMul(magnitude, ExpNeg(3 * k, duration))

\* progress = (i - start_idx) / duration
\* factor = 1.0 + (magnitude - 1.0) * min(progress * 2, 1.0)
GradualFactorFullRamp(magnitude, k, duration) ==
    FScale + FMul(magnitude - FScale, Min(FDiv(k, duration), FScale))

GradualFactor(magnitude, k, duration) ==
    FScale + FMul(magnitude - FScale, Min(2 * FDiv(k, duration), FScale))

\* the factor of the drop branch: data[i]["value"] *= 0.3
DropFactorOfMagnitude(magnitude) == magnitude

DropFactorOf(magnitude) == DropFactor

\* the factor the branch of anomaly_type multiplies point start_idx + k by
AnomalyFactor(kind, magnitude, k, duration) ==
    CASE kind = "spike"   -> SpikeFactor(magnitude, k, duration)
      [] kind = "gradual" -> GradualFactor(magnitude, k, duration)
      [] kind = "drop"    -> DropFactorOf(magnitude)

\* the branches that divide by duration (duration / 3 is 0.0 when duration is 0)
DividesByDuration(kind) == kind \in {"spike", "gradual"}

\* whether anomaly_type selects a branch of the if / elif chain
KnownKind(kind) == kind \in {"spike", "gradual", "drop"}

\* the loop of a call that adds the factor to the point instead of scaling by it
InjectedDataAdding(d, kind, sp, dp, magnitude) ==
    LET total     == Len(d)
        start_idx == TruncIndex(total, sp)
        duration  == TruncIndex(total, dp)
        window    == WindowIndices(total, start_idx, duration)
    IN  [p \in 1..total |->
            IF (p - 1) \in window /\ KnownKind(kind)
            THEN [d[p] EXCEPT !.value =
                    @ + AnomalyFactor(kind, magnitude, p - 1 - start_idx, duration)]
            ELSE d[p]]

\* "ok", or the exception the loop raises (in its first iteration, before it
\* assigns anything)
InjectOutcome(d, kind, sp, dp) ==
    LET total     == Len(d)
        start_idx == TruncIndex(total, sp)
        duration  == TruncIndex(total, dp)
        window    == WindowIndices(total, start_idx, duration)
    IN  IF window # {} /\ duration = 0 /\ DividesByDuration(kind)
        THEN "ZeroDivisionError"
        ELSE "ok"

\* the series after the loop of a call that raises nothing: the points of the
\* window are multiplied by the factor of the branch anomaly_type selects, and no
\* branch is selected by any other anomaly_type
InjectedData(d, kind, sp, dp, magnitude) ==
    LET total     == Len(d)
        start_idx == TruncIndex(total, sp)
        duration  == TruncIndex(total, dp)
        window    == WindowIndices(total, start_idx, duration)
    IN  [p \in 1..total |->
            IF (p - 1) \in window /\ KnownKind(kind)
            THEN [d[p] EXCEPT !.value =
                    FMul(@, AnomalyFactor(kind, magnitude, p - 1 - start_idx, duration))]
            ELSE d[p]]

\* the factors the loop multiplied by, in window order
InjectedFactors(d, kind, sp, dp, magnitude) ==
    LET total     == Len(d)
        start_idx == TruncIndex(total, sp)
        duration  == TruncIndex(total, dp)
        window    == WindowIndices(total, start_idx, duration)
    IN  IF KnownKind(kind)
        THEN [k \in 1..Cardinality(window) |->
                AnomalyFactor(kind, magnitude, k - 1, duration)]
        ELSE <<>>

InjectAnomaly ==
    /\ pc = "generated"
    /\ \E kind \in AnomalyTypes, sp \in StartPercents, dp \in DurationPercents,
          magnitude \in Magnitudes :
          LET c == [op |-> "inject", anomaly_type |-> kind, start_percent |-> sp,
                    duration_percent |-> dp, magnitude |-> magnitude]
          IN  /\ call' = c
              /\ before' = data
              /\ history' = Append(history, [call |-> c, before |-> data])
              /\ outcome' = InjectOutcome(data, kind, sp, dp)
              /\ IF InjectOutcome(data, kind, sp, dp) = "ok"
                 THEN /\ data' = InjectedData(data, kind, sp, dp, magnitude)
                      /\ factors' = InjectedFactors(data, kind, sp, dp, magnitude)
                 ELSE /\ data' = data
                      /\ factors' = <<>>
    /\ pc' = "injected"
    /\ UNCHANGED <<now, stats, request, response>>

\* a second inject_anomaly call on the series the first one returned (the
\* first call mutated the list in place and returned it)
InjectAnomalyAgain ==
    /\ pc = "injected"
    /\ outcome = "ok"
    /\ \E kind \in AnomalyTypes, sp \in StartPercents, dp \in DurationPercents,
          magnitude \in Magnitudes :
          LET c == [op |-> "inject", anomaly_type |-> kind, start_percent |-> sp,
                    duration_percent |-> dp, magnitude |-> magnitude]
          IN  /\ call' = c
              /\ before' = data
              /\ history' = Append(history, [call |-> c, before |-> data])
              /\ outcome' = InjectOutcome(data, kind, sp, dp)
              /\ IF InjectOutcome(data, kind, sp, dp) = "ok"
                 THEN /\ data' = InjectedData(data, kind, sp, dp, magnitude)
                      /\ factors' = InjectedFactors(data, kind, sp, dp, magnitude)
                 ELSE /\ data' = data
                      /\ factors' = <<>>
    /\ pc' = "composed"
    /\ UNCHANGED <<now, stats, request, response>>

----------------------------------------------------------------------------
(* calculate_statistics *)

\* values = [point["value"] for point in data]
Values(d) == [i \in 1..Len(d) |-> d[i].value]

\* vs[lo] + ... + vs[hi], summed by halves
RECURSIVE SumRange(_, _, _)
SumRange(vs, lo, hi) ==
    IF lo > hi THEN 0
    ELSE IF lo = hi THEN vs[lo]
    ELSE LET mid == (lo + hi) \div 2
         IN  SumRange(vs, lo, mid) + SumRange(vs, mid + 1, hi)

SumSeq(vs) == SumRange(vs, 1, Len(vs))

\* a / n for a float a and a count n > 0, rounded to the grid
DivRound(a, n) == Sign(a) * ((2 * Abs(a) + n) \div (2 * n))

\* sum(vs) / d rounded to the grid, summed quotient and remainder apart so
\* that the sum of a long list stays within the machine integers
MeanBy(vs, d) ==
    SumSeq([i \in 1..Len(vs) |-> vs[i] \div d])
        + DivRound(SumSeq([i \in 1..Len(vs) |-> vs[i] % d]), d)

\* np.mean of a non-empty list
Mean(vs) == MeanBy(vs, Len(vs))

\* midpoint = len(values) // 2
MidpointRoundedUp(n) == IF n < 2 THEN 0 ELSE (n + 1) \div 2

Midpoint(n) == n \div 2

\* previous_avg = np.mean(values[:midpoint]); current_avg = np.mean(values[midpoint:])
\* delta_percent = ((current_avg - previous_avg) / previous_avg * 100)
\*                     if previous_avg > 0 else 0
\* (np.mean of the empty first half of a one-point list is nan, and nan > 0 is False)
DeltaPercent(vs) ==
    LET n        == Len(vs)
        midpoint == Midpoint(n)
        previous_avg == Mean(SubSeq(vs, 1, midpoint))
        current_avg  == Mean(SubSeq(vs, midpoint + 1, n))
    IN  IF midpoint = 0 THEN 0
        ELSE IF previous_avg > 0
        THEN FDiv(current_avg - previous_avg, previous_avg) * 100
        ELSE 0

\* the values in ascending order (np.percentile and np.median order their input)
Unsorted(vs) == vs

Sorted(vs) == SortSeq(vs, LAMBDA a, b : a < b)

\* the fractional rank of np.percentile(values, q), in hundredths: (n - 1) * q / 100
Rank100(n, q) == (n - 1) * q

\* np.percentile(values, q), method "linear", of a non-empty list; s is the
\* list in ascending order
Percentile(s, q) ==
    LET n     == Len(s)
        r     == Rank100(n, q)
        lo    == r \div 100
        gamma == r % 100
        lower == s[lo + 1]
        upper == s[Min(lo + 2, n)]
    IN  lower + DivRound((upper - lower) * gamma, 100)

\* np.median of a non-empty list; s is the list in ascending order
Median(s) ==
    LET n == Len(s)
    IN  IF n % 2 = 1 THEN s[(n + 1) \div 2]
        ELSE DivRound(s[n \div 2] + s[n \div 2 + 1], 2)

\* the largest r in lo..hi with r * r <= x
RECURSIVE FloorSqrt(_, _, _)
FloorSqrt(x, lo, hi) ==
    IF lo >= hi THEN lo
    ELSE LET mid == (lo + hi + 1) \div 2
         IN  IF mid * mid <= x THEN FloorSqrt(x, mid, hi) ELSE FloorSqrt(x, lo, mid - 1)

\* sqrt of a float x >= 0, to the nearest hundredth
Sqrt(x) ==
    LET f == FloorSqrt(x, 0, 46340)
    IN  (IF x - f * f <= f THEN f ELSE f + 1) * (FScale \div 100)

\* np.std(values) of a non-empty list (ddof = 0: the squares are averaged over n)
StdDev(vs) ==
    LET n  == Len(vs)
        mu == Mean(vs)
        sq == [i \in 1..n |-> FMul(vs[i] - mu, vs[i] - mu)]
    IN  Sqrt(MeanBy(sq, n))

\* the least element of a non-empty set of numbers
Least(S) == CHOOSE v \in S : \A w \in S : v <= w

\* np.min and np.max of a non-empty list
MinOf(vs) == Least({vs[i] : i \in 1..Len(vs)})

MaxOf(vs) == -Least({-vs[i] : i \in 1..Len(vs)})

\* the dict calculate_statistics returns for a non-empty list
Statistics(vs) ==
    LET s == Sorted(vs)
    IN
    [min     |-> Round2(MinOf(vs)),
     max     |-> Round2(MaxOf(vs)),
     mean    |-> Round2(Mean(vs)),
     median  |-> Round2(Median(s)),
     p95     |-> Round2(Percentile(s, 95)),
     p99     |-> Round2(Percentile(s, 99)),
     std_dev |-> Round2(StdDev(vs)),
     delta_vs_previous_period |-> Round2(DeltaPercent(vs))]

\* np.mean of an empty list is nan with a warning, np.min of it returns nan too
StatisticsOutcomeNaN(vs) == "ok"

\* np.mean of an empty list is nan with a warning; np.min of it raises ValueError
\* (zero-size array to reduction operation minimum which has no identity)
StatisticsOutcome(vs) == IF Len(vs) = 0 THEN "ValueError" ELSE "ok"

CalculateStatistics ==
    /\ pc \in {"given", "generated", "injected"}
    /\ outcome = "ok"
    /\ outcome' = StatisticsOutcome(Values(data))
    /\ stats' = IF Len(data) = 0
                THEN \* the dict literal is never built
                     NoStats
                ELSE Statistics(Values(data))
    /\ pc' = "summarized"
    /\ UNCHANGED <<now, data, before, call, factors, history, request, response>>

----------------------------------------------------------------------------
(* Series handed to calculate_statistics by a caller *)

\* the longest series whose values are enumerated
MaxStatLen == 4

\* values of the enumerated series (floats): -1, 0, 1, 2, 3
StatValues == {Fx(-100), Fx(0), Fx(100), Fx(200), Fx(300)}

\* the instant of the first point of a handed series
StatEpoch == 20000 * 1440

SeriesOf(vs) ==
    [i \in 1..Len(vs) |-> [timestamp |-> IsoFormat(StatEpoch + i), value |-> vs[i]]]

\* 1, 2, ..., 100 in ascending, descending and a scattered order
Hundred == [i \in 1..100 |-> Fx(100 * i)]

HundredOrders ==
    {Hundred,
     [i \in 1..100 |-> Hundred[101 - i]],
     [i \in 1..100 |-> Hundred[((37 * i) % 100) + 1]]}

StatInputs ==
    UNION {[1..n -> StatValues] : n \in 0..MaxStatLen} \cup HundredOrders

InitStats ==
    /\ pc = "given"
    /\ now = 0
    /\ \E vs \in StatInputs : data = SeriesOf(vs)
    /\ before = <<>>
    /\ call = NoCall
    /\ factors = <<>>
    /\ outcome = "ok"
    /\ stats = NoStats
    /\ history = <<>>
    /\ request = NoRequest
    /\ response = NoResponse

NextStats ==
    \/ CalculateStatistics

SpecStats == InitStats /\ [][NextStats]_vars

----------------------------------------------------------------------------
(* Two inject_anomaly calls in a row on a given series *)

\* length of the given series
ComposeLen == 10

\* 6.48, 12.85, ... (whole hundredths, as round(value, 2) leaves them) and a
\* flat 60.0
ComposeInputs ==
    {[i \in 1..ComposeLen |-> Fx(11 + 637 * i)],
     [i \in 1..ComposeLen |-> Fx(6000)]}

InitCompose ==
    /\ pc = "generated"
    /\ now = 0
    /\ \E vs \in ComposeInputs : data = SeriesOf(vs)
    /\ before = <<>>
    /\ call = NoCall
    /\ factors = <<>>
    /\ outcome = "ok"
    /\ stats = NoStats
    /\ history = <<>>
    /\ request = NoRequest
    /\ response = NoResponse

NextCompose ==
    \/ InjectAnomaly
    \/ InjectAnomalyAgain

SpecCompose == InitCompose /\ [][NextCompose]_vars

----------------------------------------------------------------------------
(* The per-metric wrappers: generate_cpu_metrics, generate_latency_metrics,   *)
(* generate_error_rate_metrics, generate_memory_metrics and                   *)
(* generate_request_rate_metrics.  Each builds its series with the default    *)
(* interval and, when asked, injects its anomaly with the default window,     *)
(* then summarizes each series.  The result of a wrapper is kept as what its  *)
(* callers tell apart: per series its key, its number of points, the anomaly  *)
(* injected and whether the summary was returned; per pod its number of       *)
(* points (the pods differ in their baseline only, which does not change the  *)
(* number of points, so one pod series is generated for all of them).         *)

\* the keys of the baseline tables of the wrappers
Environments == {"dev", "staging", "prod"}

\* interval_minutes of generate_baseline_timeseries when the caller gives none
DefaultIntervalMinutes == 5

\* start_percent and duration_percent of inject_anomaly when the caller gives
\* none, in hundredths
DefaultStartPercent == 60

DefaultDurationPercent == 10

\* {"dev": dev, "staging": staging, "prod": prod}[env]
ByEnv(env, dev, staging, prod) ==
    CASE env = "dev"     -> dev
      [] env = "staging" -> staging
      [] env = "prod"    -> prod

\* PODS_PER_SERVICE[env]
PodsPerService(env) == ByEnv(env, 2, 3, 5)

\* for each series a wrapper summarizes: its key in the result, the baseline and
\* noise it is generated with, and the anomaly injected when with_anomaly is set
SeriesPlans(metric, env) ==
    CASE metric = "cpu_usage" ->
           <<[name |-> "aggregated", baseline |-> ByEnv(env, Fx(3000), Fx(4500), Fx(6000)),
              noise |-> Fx(500), anomaly_type |-> "spike", magnitude |-> Fx(250)]>>
      [] metric = "latency" ->
           LET baseline_p50 == ByEnv(env, Fx(5000), Fx(8000), Fx(12000))
           IN  <<[name |-> "p50", baseline |-> baseline_p50,
                  noise |-> Fx(1000), anomaly_type |-> "gradual", magnitude |-> Fx(180)],
                 [name |-> "p95", baseline |-> FMul(baseline_p50, Fx(250)),
                  noise |-> Fx(2000), anomaly_type |-> "spike", magnitude |-> Fx(300)],
                 [name |-> "p99", baseline |-> FMul(baseline_p50, Fx(400)),
                  noise |-> Fx(3000), anomaly_type |-> "spike", magnitude |-> Fx(400)]>>
      [] metric = "error_rate" ->
           <<[name |-> "data", baseline |-> ByEnv(env, Fx(50), Fx(30), Fx(10)),
              noise |-> Fx(10), anomaly_type |-> "spike", magnitude |-> Fx(1000)]>>
      [] metric = "memory_usage" ->
           <<[name |-> "data", baseline |-> ByEnv(env, Fx(4000), Fx(5500), Fx(7000)),
              noise |-> Fx(300), anomaly_type |-> "gradual", magnitude |-> Fx(160)]>>
      [] metric = "request_rate" ->
           LET baseline == ByEnv(env, Fx(5000), Fx(20000), Fx(100000))
           IN  <<[name |-> "data", baseline |-> baseline,
                  noise |-> FMul(baseline, Fx(10)), anomaly_type |-> "spike",
                  magnitude |-> Fx(300)]>>

\* a wrapper that asks for one point per hour
WrapperSeriesHourly(plan, hours, with_anomaly, t, zs) ==
    LET base == BaselineSeries(hours, 60, plan.baseline, plan.noise, t, zs)
    IN  IF with_anomaly
        THEN InjectedData(base, plan.anomaly_type, DefaultStartPercent,
                          DefaultDurationPercent, plan.magnitude)
        ELSE base

\* data = generate_baseline_timeseries(hours=hours, baseline=..., noise=...)
\* if with_anomaly: data = inject_anomaly(data, anomaly_type=..., magnitude=...)
WrapperSeries(plan, hours, with_anomaly, t, zs) ==
    LET base == BaselineSeries(hours, DefaultIntervalMinutes, plan.baseline,
                               plan.noise, t, zs)
    IN  IF with_anomaly
        THEN InjectedData(base, plan.anomaly_type, DefaultStartPercent,
                          DefaultDurationPercent, plan.magnitude)
        ELSE base

\* random.random() of the per-pod baseline, a value of [0, 1)
PodDraws == {Fx(50)}

\* pod_series of generate_cpu_metrics: pod_baseline = baseline * (0.8 + u * 0.4)
PodSeries(env, hours, t, zs, u) ==
    BaselineSeries(hours, DefaultIntervalMinutes,
                   FMul(SeriesPlans("cpu_usage", env)[1].baseline,
                        Fx(80) + FMul(u, Fx(40))),
                   Fx(300), t, zs)

\* what a wrapper call builds: the dict it returns when nothing raises
MetricResult(metric, env, hours, with_anomaly, t, zs, u) ==
    LET plans == SeriesPlans(metric, env)
    IN  [metric      |-> metric,
         environment |-> env,
         series      |-> [k \in 1..Len(plans) |->
                            LET d == WrapperSeries(plans[k], hours, with_anomaly, t, zs)
                            IN  [name    |-> plans[k].name,
                                 points  |-> Len(d),
                                 anomaly |-> IF with_anomaly THEN plans[k].anomaly_type
                                             ELSE "none",
                                 summary |-> StatisticsOutcome(Values(d))]],
         pods        |-> IF metric = "cpu_usage"
                         THEN LET pod_points == Len(PodSeries(env, hours, t, zs, u))
                              IN  [i \in 1..PodsPerService(env) |-> pod_points]
                         ELSE <<>>]

\* "ok", or the exception a wrapper call ends in: the baseline lookup raises
\* KeyError for an environment that is no key, calculate_statistics raises on an
\* empty series
WrapperOutcome(metric, env, hours, with_anomaly, t, zs, u) ==
    IF env \notin Environments THEN "KeyError"
    ELSE LET r == MetricResult(metric, env, hours, with_anomaly, t, zs, u)
         IN  IF \E k \in 1..Len(r.series) : r.series[k].summary # "ok"
             THEN "ValueError"
             ELSE "ok"

----------------------------------------------------------------------------
(* generate_incident_scenario *)

ScenarioTypes == {"cpu_spike", "database_slowdown", "traffic_surge"}

\* hours of every wrapper call of generate_incident_scenario
ScenarioHours == 24

\* the wrapper calls of each entry of the scenarios dict, with their
\* with_anomaly argument, and its root_cause
ScenarioPlan(scenario_type) ==
    CASE scenario_type = "cpu_spike" ->
           [root_cause |-> "CPU hot loop in payment processing code",
            calls      |-> <<<<"cpu_usage", TRUE>>, <<"latency", TRUE>>,
                             <<"memory_usage", FALSE>>, <<"error_rate", FALSE>>>>]
      [] scenario_type = "database_slowdown" ->
           [root_cause |-> "Missing database index on frequently queried table",
            calls      |-> <<<<"cpu_usage", FALSE>>, <<"latency", TRUE>>,
                             <<"memory_usage", FALSE>>, <<"error_rate", TRUE>>>>]
      [] scenario_type = "traffic_surge" ->
           [root_cause |-> "Marketing campaign drove 3x normal traffic",
            calls      |-> <<<<"cpu_usage", TRUE>>, <<"latency", TRUE>>,
                             <<"memory_usage", TRUE>>, <<"error_rate", TRUE>>,
                             <<"request_rate", TRUE>>>>]

\* the scenarios dict: all three entries are built before one is picked
Scenarios(env, t, zs, u) ==
    [st \in ScenarioTypes |->
        LET plan == ScenarioPlan(st)
        IN  [root_cause |-> plan.root_cause,
             metrics    |-> [k \in 1..Len(plan.calls) |->
                               MetricResult(plan.calls[k][1], env, ScenarioHours,
                                            plan.calls[k][2], t, zs, u)]]]

\* "ok", or the exception building the dict ends in: the first wrapper call
\* raises KeyError for an environment that is no key, a wrapper raises when
\* calculate_statistics does
ScenariosOutcome(env, scenarios) ==
    IF env \notin Environments THEN "KeyError"
    ELSE IF \E st \in ScenarioTypes : \E k \in 1..Len(scenarios[st].metrics) :
               \E j \in 1..Len(scenarios[st].metrics[k].series) :
                   scenarios[st].metrics[k].series[j].summary # "ok"
         THEN "ValueError"
         ELSE "ok"

\* scenarios.get(scenario_type, a default that is the last entry)
SelectScenarioLast(scenarios, scenario_type) ==
    IF scenario_type \in DOMAIN scenarios THEN scenarios[scenario_type]
    ELSE scenarios["traffic_surge"]

\* return scenarios.get(scenario_type, scenarios["cpu_spike"])
SelectScenario(scenarios, scenario_type) ==
    IF scenario_type \in DOMAIN scenarios THEN scenarios[scenario_type]
    ELSE scenarios["cpu_spike"]

----------------------------------------------------------------------------
(* The HTTP layer (src/main.py): routes in the order they are registered, the *)
(* validation of the query parameters, the handlers of the metric endpoints   *)
(* and of the scenario endpoints.                                             *)

\* a literal segment of a route path, and a path parameter
Lit(s) == [lit |-> s]

Param(name) == [param |-> name]

IsParam(seg) == "param" \in DOMAIN seg

\* the routes of the metric and scenario endpoints, in registration order
Routes ==
    <<[path |-> <<Lit("api"), Lit("metrics"), Lit("cpu")>>, handler |-> "get_cpu_metrics"],
      [path |-> <<Lit("api"), Lit("metrics"), Lit("latency")>>,
       handler |-> "get_latency_metrics"],
      [path |-> <<Lit("api"), Lit("metrics"), Lit("error-rate")>>,
       handler |-> "get_error_rate_metrics"],
      [path |-> <<Lit("api"), Lit("metrics"), Lit("memory")>>,
       handler |-> "get_memory_metrics"],
      [path |-> <<Lit("api"), Lit("metrics"), Lit("request-rate")>>,
       handler |-> "get_request_rate_metrics"],
      [path |-> <<Lit("api"), Lit("scenarios"), Param("scenario_type")>>,
       handler |-> "get_scenario"],
      [path |-> <<Lit("api"), Lit("scenarios"), Lit("list")>>,
       handler |-> "list_scenarios"]>>

\* whether a route path matches a request path (a parameter matches any segment)
Matches(pattern, path) ==
    /\ Len(pattern) = Len(path)
    /\ \A i \in 1..Len(pattern) : IsParam(pattern[i]) \/ pattern[i].lit = path[i]

\* the handler of the first registered route that matches, "not_found" if none
HandlerFor(path) ==
    LET hits == {i \in 1..Len(Routes) : Matches(Routes[i].path, path)}
    IN  IF hits = {} THEN "not_found"
        ELSE Routes[CHOOSE i \in hits : \A j \in hits : i <= j].handler

\* the value the matched route binds to its path parameter
ScenarioTypeOf(path) == path[3]

\* hours: int = Query(24, ge=1, le=168)
MinQueryHours == 1

MaxQueryHours == 168

\* values of the hours parameter: the two ends of the accepted range, values
\* inside it, and the two nearest rejected ones
QueryHours == {MinQueryHours - 1, MinQueryHours, 2, 24, MaxQueryHours, MaxQueryHours + 1}

\* values of the environment parameter ("qa" stands for any string that is no
\* key of the baseline tables)
QueryEnvironments == Environments \cup {"qa"}

\* the random stream of a request: one draw, repeated
QueryDraws == {[i \in 1..NoisePeriod |-> z] : z \in ZDraws}

\* utcnow() while a request is served: day 20000 at 18:30
QueryNows == {StatEpoch + 1110}

NoBody == [metric |-> "none"]

\* the answer of a metric endpoint: 422 when the query validation rejects hours,
\* 500 when the wrapper raises, else the wrapper's result
MetricsResponse(handler, metric, env, hours, anomaly, t, zs, u) ==
    IF hours < MinQueryHours \/ hours > MaxQueryHours
    THEN [status |-> 422, handler |-> "none", error |-> "ValidationError", body |-> NoBody]
    ELSE LET o == WrapperOutcome(metric, env, hours, anomaly, t, zs, u)
         IN  IF o # "ok"
             THEN [status |-> 500, handler |-> handler, error |-> o, body |-> NoBody]
             ELSE [status |-> 200, handler |-> handler, error |-> "none",
                   body |-> MetricResult(metric, env, hours, anomaly, t, zs, u)]

\* the metric a handler of a metric endpoint generates
MetricOf(handler) ==
    CASE handler = "get_cpu_metrics"          -> "cpu_usage"
      [] handler = "get_latency_metrics"      -> "latency"
      [] handler = "get_error_rate_metrics"   -> "error_rate"
      [] handler = "get_memory_metrics"       -> "memory_usage"
      [] handler = "get_request_rate_metrics" -> "request_rate"

\* GET /api/metrics/cpu
GetCpuMetrics ==
    /\ pc = "idle"
    /\ \E env \in QueryEnvironments, hours \in QueryHours, anomaly \in BOOLEAN,
          t \in QueryNows, zs \in QueryDraws, u \in PodDraws :
          LET path == <<"api", "metrics", "cpu">>
          IN  /\ HandlerFor(path) = "get_cpu_metrics"
              /\ request' = [path |-> path, environment |-> env, hours |-> hours,
                             anomaly |-> anomaly]
              /\ response' = MetricsResponse(HandlerFor(path), MetricOf(HandlerFor(path)),
                                             env, hours, anomaly, t, zs, u)
              /\ now' = t
    /\ pc' = "answered"
    /\ UNCHANGED <<data, before, call, factors, outcome, stats, history>>

\* GET /api/metrics/latency
GetLatencyMetrics ==
    /\ pc = "idle"
    /\ \E env \in QueryEnvironments, hours \in QueryHours, anomaly \in BOOLEAN,
          t \in QueryNows, zs \in QueryDraws, u \in PodDraws :
          LET path == <<"api", "metrics", "latency">>
          IN  /\ HandlerFor(path) = "get_latency_metrics"
              /\ request' = [path |-> path, environment |-> env, hours |-> hours,
                             anomaly |-> anomaly]
              /\ response' = MetricsResponse(HandlerFor(path), MetricOf(HandlerFor(path)),
                                             env, hours, anomaly, t, zs, u)
              /\ now' = t
    /\ pc' = "answered"
    /\ UNCHANGED <<data, before, call, factors, outcome, stats, history>>

\* GET /api/metrics/error-rate
GetErrorRateMetrics ==
    /\ pc = "idle"
    /\ \E env \in QueryEnvironments, hours \in QueryHours, anomaly \in BOOLEAN,
          t \in QueryNows, zs \in QueryDraws, u \in PodDraws :
          LET path == <<"api", "metrics", "error-rate">>
          IN  /\ HandlerFor(path) = "get_error_rate_metrics"
              /\ request' = [path |-> path, environment |-> env, hours |-> hours,
                             anomaly |-> anomaly]
              /\ response' = MetricsResponse(HandlerFor(path), MetricOf(HandlerFor(path)),
                                             env, hours, anomaly, t, zs, u)
              /\ now' = t
    /\ pc' = "answered"
    /\ UNCHANGED <<data, before, call, factors, outcome, stats, history>>

\* GET /api/metrics/memory
GetMemoryMetrics ==
    /\ pc = "idle"
    /\ \E env \in QueryEnvironments, hours \in QueryHours, anomaly \in BOOLEAN,
          t \in QueryNows, zs \in QueryDraws, u \in PodDraws :
          LET path == <<"api", "metrics", "memory">>
          IN  /\ HandlerFor(path) = "get_memory_metrics"
              /\ request' = [path |-> path, environment |-> env, hours |-> hours,
                             anomaly |-> anomaly]
              /\ response' = MetricsResponse(HandlerFor(path), MetricOf(HandlerFor(path)),
                                             env, hours, anomaly, t, zs, u)
              /\ now' = t
    /\ pc' = "answered"
    /\ UNCHANGED <<data, before, call, factors, outcome, stats, history>>

\* GET /api/metrics/request-rate
GetRequestRateMetrics ==
    /\ pc = "idle"
    /\ \E env \in QueryEnvironments, hours \in QueryHours, anomaly \in BOOLEAN,
          t \in QueryNows, zs \in QueryDraws, u \in PodDraws :
          LET path == <<"api", "metrics", "request-rate">>
          IN  /\ HandlerFor(path) = "get_request_rate_metrics"
              /\ request' = [path |-> path, environment |-> env, hours |-> hours,
                             anomaly |-> anomaly]
              /\ response' = MetricsResponse(HandlerFor(path), MetricOf(HandlerFor(path)),
                                             env, hours, anomaly, t, zs, u)
              /\ now' = t
    /\ pc' = "answered"
    /\ UNCHANGED <<data, before, call, factors, outcome, stats, history>>

\* the last path segment of the requests to /api/scenarios/...: the three
\* scenario types, "list", and a string that is none of them
ScenarioSegments == ScenarioTypes \cup {"list", "memory_leak"}

\* the body list_scenarios returns: the types it lists
ScenarioList == [scenarios |-> <<"cpu_spike", "database_slowdown", "traffic_surge">>]

\* the answer of get_scenario: 500 when generate_incident_scenario raises, else
\* the entry it returns
ScenarioResponse(scenario_type, env, t, zs, u) ==
    LET scenarios == Scenarios(env, t, zs, u)
        o         == ScenariosOutcome(env, scenarios)
    IN  IF o # "ok"
        THEN [status |-> 500, handler |-> "get_scenario", error |-> o, body |-> NoBody]
        ELSE [status |-> 200, handler |-> "get_scenario", error |-> "none",
              body |-> SelectScenario(scenarios, scenario_type)]

\* GET /api/scenarios/<segment>: answered by the first registered route that
\* matches the path
GetScenarios ==
    /\ pc = "idle"
    /\ \E segment \in ScenarioSegments, env \in QueryEnvironments,
          t \in QueryNows, zs \in QueryDraws, u \in PodDraws :
          LET path == <<"api", "scenarios", segment>>
          IN  /\ HandlerFor(path) \in {"get_scenario", "list_scenarios"}
              /\ request' = [path |-> path, environment |-> env]
              /\ response' =
                    IF HandlerFor(path) = "get_scenario"
                    THEN ScenarioResponse(ScenarioTypeOf(path), env, t, zs, u)
                    ELSE [status |-> 200, handler |-> "list_scenarios",
                          error |-> "none", body |-> ScenarioList]
              /\ now' = t
    /\ pc' = "answered"
    /\ UNCHANGED <<data, before, call, factors, outcome, stats, history>>

InitApi ==
    /\ pc = "idle"
    /\ now = 0
    /\ data = <<>>
    /\ before = <<>>
    /\ call = NoCall
    /\ factors = <<>>
    /\ outcome = "ok"
    /\ stats = NoStats
    /\ history = <<>>
    /\ request = NoRequest
    /\ response = NoResponse

NextApi ==
    \/ GetCpuMetrics
    \/ GetLatencyMetrics
    \/ GetErrorRateMetrics
    \/ GetMemoryMetrics
    \/ GetRequestRateMetrics
    \/ GetScenarios

SpecApi == InitApi /\ [][NextApi]_vars

----------------------------------------------------------------------------

Init ==
    /\ pc = "start"
    /\ now = 0
    /\ data = <<>>
    /\ before = <<>>
    /\ call = NoCall
    /\ factors = <<>>
    /\ outcome = "ok"
    /\ stats = NoStats
    /\ history = <<>>
    /\ request = NoRequest
    /\ response = NoResponse

Next ==
    \/ GenerateBaselineTimeseries
    \/ InjectAnomaly
    \/ CalculateStatistics

Spec == Init /\ [][Next]_vars

----------------------------------------------------------------------------
(* Properties of inject_anomaly *)

\* the last call was inject_anomaly with one of the three anomaly kinds
Injected == pc = "injected" /\ call.op = "inject" /\ KnownKind(call.anomaly_type)

\* floor(n * fraction) for a fraction given in hundredths
FloorOf(n, percent) == CHOOSE k \in 0..n : 100 * k <= n * percent /\ n * percent < 100 * (k + 1)

\* first index, length and end (exclusive) of the window of the last call, 0-based
WinStart == FloorOf(Len(before), call.start_percent)

WinLength == FloorOf(Len(before), call.duration_percent)

WinEnd == Min(WinStart + WinLength, Len(before))

\* C1: inject_anomaly (spike, gradual or drop) keeps the length of the series and
\* every timestamp, and every point whose index is outside
\* [floor(n*start), min(floor(n*start) + floor(n*duration), n)) keeps its value.
C1_FrameOutsideWindow ==
    Injected =>
        /\ Len(data) = Len(before)
        /\ \A p \in 1..Len(before) :
              /\ data[p].timestamp = before[p].timestamp
              /\ (p - 1 < WinStart \/ p - 1 >= WinEnd) => data[p].value = before[p].value

\* a spike over a window strictly inside a 30-point series changed a value in the
\* window and left points on both sides of it
C1_Witness ==
    /\ Injected
    /\ call.anomaly_type = "spike"
    /\ Len(before) = 30
    /\ 0 < WinStart
    /\ WinStart < WinEnd
    /\ WinEnd < Len(before)
    /\ \E p \in (WinStart + 1)..WinEnd : data[p].value # before[p].value

\* C4: when floor(len(series) * duration_fraction) is 0, inject_anomaly of any of
\* the three kinds returns normally (no division by zero) and the series is
\* identical to what it was before the call.
C4_EmptyWindowNoOp ==
    (Injected /\ WinLength = 0) => (outcome = "ok" /\ data = before)

\* a spike was injected at the start of a non-empty series too short for
\* duration 0.1 to cover a point
C4_Witness ==
    /\ Injected
    /\ call.anomaly_type = "spike"
    /\ Len(before) = 8
    /\ call.duration_percent = 10
    /\ call.start_percent = 0
    /\ WinLength = 0

\* the window of the last call lies wholly inside the series
WindowFits == WinStart + WinLength <= Len(before)

\* C5 as stated: for a gradual anomaly of magnitude 1.8 over a window of
\* window_length >= 1 points that fits in the series, the factor of the last
\* point is 1.8, the factor of the first is 1 and the factors never decrease.
C5_GradualReachesMagnitude ==
    (Injected /\ call.anomaly_type = "gradual" /\ call.magnitude = Fx(180)
        /\ WinLength >= 1 /\ WindowFits) =>
        /\ Len(factors) = WinLength
        /\ factors[1] = FScale
        /\ factors[WinLength] = Fx(180)
        /\ \A k \in 1..(WinLength - 1) : factors[k] <= factors[k + 1]

\* C5 amended: the factor of the first point is 1 and the factors never
\* decrease for every window_length >= 1; the factor of the last point is 1.8
\* when window_length >= 2 (the only point of a one-point window has factor 1).
C5_GradualPlateau ==
    (Injected /\ call.anomaly_type = "gradual" /\ call.magnitude = Fx(180)
        /\ WinLength >= 1 /\ WindowFits) =>
        /\ Len(factors) = WinLength
        /\ factors[1] = FScale
        /\ WinLength >= 2 => factors[WinLength] = Fx(180)
        /\ WinLength = 1 => factors[WinLength] = FScale
        /\ \A k \in 1..(WinLength - 1) : factors[k] <= factors[k + 1]

\* a gradual anomaly of magnitude 1.8 ramped over a 15-point window
C5_Witness ==
    /\ Injected
    /\ call.anomaly_type = "gradual"
    /\ call.magnitude = Fx(180)
    /\ WindowFits
    /\ WinLength = 15
    /\ factors[1] = FScale
    /\ factors[2] > FScale
    /\ factors[15] = Fx(180)

\* C6: for a spike of positive magnitude over a window of window_length >= 1,
\* the factor of the first window point is exactly magnitude and the factor
\* strictly decreases from each window point to the next.
C6_SpikeDecay ==
    (Injected /\ call.anomaly_type = "spike" /\ call.magnitude > 0
        /\ WinLength >= 1 /\ WinStart < WinEnd) =>
        /\ Len(factors) = WinEnd - WinStart
        /\ factors[1] = call.magnitude
        /\ \A k \in 1..(Len(factors) - 1) : factors[k + 1] < factors[k]

\* a spike of magnitude 2.0 over a window of 30 points
C6_Witness ==
    /\ Injected
    /\ call.anomaly_type = "spike"
    /\ call.magnitude = Fx(200)
    /\ WinLength = 30
    /\ Len(factors) = 30
    /\ factors[1] = Fx(200)

\* the 1-based positions whose value is 0.3 times what it was
ScaledByDrop == {p \in 1..Len(before) : 10 * data[p].value = 3 * before[p].value}

\* C7: a drop multiplies every point of its window by 0.3 whatever magnitude is;
\* on a 288-point series with start 0.6 and duration 0.1 exactly the 28 points
\* of indices 172..199 are scaled by 0.3 and the other 260 are unchanged.
C7_DropConstant ==
    (Injected /\ call.anomaly_type = "drop") =>
        /\ \A p \in (WinStart + 1)..WinEnd : p \in ScaledByDrop
        /\ \A k \in 1..Len(factors) : 10 * factors[k] = 3 * FScale
        /\ (Len(before) = 288 /\ call.start_percent = 60 /\ call.duration_percent = 10) =>
              /\ {p \in 1..288 : data[p].value # before[p].value} = 173..200
              /\ ScaledByDrop = 173..200
              /\ Cardinality(ScaledByDrop) = 28
              /\ Cardinality({p \in 1..288 : data[p].value = before[p].value}) = 260

\* a drop of magnitude 2.0 on the 288-point series of 24 hours at 5 minutes
C7_Witness ==
    /\ Injected
    /\ call.anomaly_type = "drop"
    /\ call.magnitude = Fx(200)
    /\ Len(before) = 288
    /\ call.start_percent = 60
    /\ call.duration_percent = 10
    /\ data[173].value # before[173].value

----------------------------------------------------------------------------
(* Properties of generate_baseline_timeseries *)

\* the series is as generate_baseline_timeseries returned it
Generated == call.op = "generate"

\* C2: called with H > 0 hours and M > 0 minutes, generate_baseline_timeseries
\* returns exactly floor(H*60/M) points, and point i is exactly M minutes
\* before point i+1.
C2_LengthAndSpacing ==
    Generated =>
        /\ Len(data) * call.interval_minutes <= call.hours * 60
        /\ call.hours * 60 < (Len(data) + 1) * call.interval_minutes
        /\ \A p \in 1..(Len(data) - 1) :
              Minutes(data[p + 1].timestamp) - Minutes(data[p].timestamp)
                  = call.interval_minutes

\* one hour at 7 minutes: 8 points, a division that leaves a remainder
C2_Witness ==
    /\ Generated
    /\ call.hours = 1
    /\ call.interval_minutes = 7
    /\ Len(data) = 8

\* C3 as stated: the last point of a non-empty generated series is stamped `now`.
C3_LastPointIsNow ==
    (Generated /\ Len(data) > 0) => Minutes(data[Len(data)].timestamp) = now

\* C3 amended: the last point of a non-empty generated series is stamped one
\* interval before `now`.
C3_LastPointOneIntervalBeforeNow ==
    (Generated /\ Len(data) > 0) =>
        Minutes(data[Len(data)].timestamp) = now - call.interval_minutes

\* the 288-point series of 24 hours at 5 minutes ends 5 minutes before `now`
C3_Witness ==
    /\ Generated
    /\ Len(data) = 288
    /\ Minutes(data[288].timestamp) = now - 5

\* C8 as stated: with noise 0 and a positive baseline, a point stamped hour 18
\* has a greater value than a point stamped hour 6, the daily factor being 1.3
\* (its maximum) at hour 18 and 0.7 (its minimum) at hour 6.
C8_Hour18AboveHour6 ==
    (Generated /\ call.noise = 0 /\ call.baseline > 0) =>
        \A p, q \in 1..Len(data) :
            (data[p].timestamp[2] = 18 /\ data[q].timestamp[2] = 6) =>
                /\ data[p].value > data[q].value
                /\ DailyFactor(18) = Fx(130)
                /\ DailyFactor(6) = Fx(70)

----------------------------------------------------------------------------
(* Properties of calculate_statistics *)

\* calculate_statistics returned a summary of the series
Summarized == pc = "summarized" /\ outcome = "ok"

\* value of point p in hundredths (the handed series hold whole hundredths)
Cents(p) == data[p].value \div (FScale \div 100)

\* sum of the values of points lo..hi, in hundredths
CentsSum(lo, hi) == SumSeq([i \in 1..(hi - lo + 1) |-> Cents(lo + i - 1)])

\* the split index floor(n/2): the first half is points 1..HalfIndex
HalfIndex == CHOOSE m \in 0..Len(data) : 2 * m <= Len(data) /\ Len(data) < 2 * m + 2

\* the first half is constant and positive and the second half uniformly its double
SecondHalfDoubles ==
    /\ Cents(1) > 0
    /\ \A p \in 1..HalfIndex : Cents(p) = Cents(1)
    /\ \A p \in (HalfIndex + 1)..Len(data) : Cents(p) = 2 * Cents(1)

\* C9: for n >= 2, delta_vs_previous_period is
\* (mean(second half) - mean(first half)) / mean(first half) * 100 with the split
\* at floor(n/2) when mean(first half) > 0 (reported to 2 decimals, here within
\* 0.02 of the exact quotient), and 0 otherwise; a second half uniformly double a
\* constant positive first half yields exactly 100.
C9_TrendDelta ==
    (Summarized /\ Len(data) >= 2 /\ Len(data) <= MaxStatLen + 1) =>
        LET n  == Len(data)
            m  == HalfIndex
            s1 == CentsSum(1, m)
            s2 == CentsSum(m + 1, n)
            d  == stats.delta_vs_previous_period \div (FScale \div 100)
        IN  /\ s1 > 0 =>
                  Abs(d * s1 * (n - m) - 10000 * (s2 * m - s1 * (n - m)))
                      <= 2 * s1 * (n - m)
            /\ s1 <= 0 => d = 0
            /\ SecondHalfDoubles => stats.delta_vs_previous_period = Fx(10000)

\* a 3-point series 1, 2, 2: the middle point counts with the second half
C9_Witness ==
    /\ Summarized
    /\ Len(data) = 3
    /\ SecondHalfDoubles
    /\ stats.delta_vs_previous_period = Fx(10000)

\* the k-th smallest value (k from 0) of the series: fewer than k + 1 values
\* are below it and at least k + 1 are not above it
OrderStat(k) ==
    LET vals == {data[p].value : p \in 1..Len(data)}
    IN  CHOOSE v \in vals :
            /\ Cardinality({p \in 1..Len(data) : data[p].value < v}) <= k
            /\ Cardinality({p \in 1..Len(data) : data[p].value <= v}) > k

\* x is, to the reported 2 decimals, the value at fractional rank (n-1)*q/100
\* of the ascending values, interpolated linearly between the closest ranks
IsPercentile(x, q) ==
    LET n     == Len(data)
        lo    == ((n - 1) * q) \div 100
        gamma == ((n - 1) * q) % 100
        lower == OrderStat(lo)
        upper == OrderStat(Min(lo + 1, n - 1))
    IN  Abs(100 * (x - lower) - (upper - lower) * gamma) <= 100 * (FScale \div 200 + 1)

\* the values of the series are 1, 2, ..., 100 in some order
IsHundred == Len(data) = 100 /\ {data[p].value : p \in 1..100} = {Fx(100 * i) : i \in 1..100}

\* C10: p95 and p99 are the linear interpolation between the two closest ranks
\* of the ascending-sorted values at fractional rank (n-1)*q, whatever the
\* order of the input; std_dev is the population standard deviation; on
\* 1, 2, ..., 100 the summary has p95 = 95.05, median = 50.5, std_dev = 28.87.
C10_PercentilesAndStdDev ==
    Summarized =>
        /\ IsPercentile(stats.p95, 95)
        /\ IsPercentile(stats.p99, 99)
        /\ Len(data) <= MaxStatLen + 1 =>
              LET n == Len(data)
                  s == CentsSum(1, n)
                  q == SumSeq([p \in 1..n |-> Cents(p) * Cents(p)])
                  r == stats.std_dev \div (FScale \div 100)
              IN  /\ (n * Max(r - 1, 0)) * (n * Max(r - 1, 0)) <= n * q - s * s
                  /\ n * q - s * s <= (n * (r + 1)) * (n * (r + 1))
        /\ IsHundred =>
              /\ stats.p95 = Fx(9505)
              /\ stats.median = Fx(5050)
              /\ stats.std_dev = Fx(2887)

\* 1, 2, ..., 100 handed in descending order and summarized
C10_Witness ==
    /\ Summarized
    /\ IsHundred
    /\ data[1].value = Fx(10000)
    /\ data[100].value = Fx(100)
    /\ stats.p95 = Fx(9505)

----------------------------------------------------------------------------
(* calculate_statistics on a zero-length series *)

\* C11: calculate_statistics called on a zero-length series fails with an error
\* and returns no statistics summary.
C11_EmptySeriesFails ==
    (pc = "summarized" /\ Len(data) = 0) =>
        /\ outcome # "ok"
        /\ stats = NoStats

\* a generated series of 0 points (1 hour at 90 minutes) was handed to
\* calculate_statistics
C11_Witness ==
    /\ pc = "summarized"
    /\ Generated
    /\ Len(data) = 0
    /\ outcome = "ValueError"

----------------------------------------------------------------------------
(* the floor at zero of generate_baseline_timeseries *)

\* C12: every point of every series returned by generate_baseline_timeseries
\* has value >= 0, whatever the baseline, the noise amplitude and the draws.
C12_ValuesNonNegative ==
    (pc = "generated" /\ Generated) =>
        \A p \in 1..Len(data) : data[p].value >= 0

\* a draw pushed a point of a positive baseline to the floor
C12_Witness ==
    /\ pc = "generated"
    /\ Generated
    /\ call.baseline > 0
    /\ call.noise > 0
    /\ \E p \in 1..Len(data) : data[p].value = 0
    /\ \E p \in 1..Len(data) : data[p].value > 0

----------------------------------------------------------------------------
(* inject_anomaly with an anomaly kind that is none of the three *)

\* C13: inject_anomaly called with an anomaly kind other than spike, gradual or
\* drop, on a series with a non-empty window, ends in an error outcome rather
\* than returning a series as if the injection had succeeded.
C13_UnknownKindIsError ==
    (/\ pc = "injected"
     /\ call.op = "inject"
     /\ ~KnownKind(call.anomaly_type)
     /\ WinStart < WinEnd) => outcome # "ok"

----------------------------------------------------------------------------
(* Two inject_anomaly calls in a row *)

\* two inject_anomaly calls were made on the given series, neither raised
Composed == pc = "composed" /\ Len(history) = 2 /\ outcome = "ok"

\* the series before the first call, and the two calls
Original == history[1].before

FirstCall == history[1].call

SecondCall == history[2].call

\* the 0-based indices of the window of call c on a series of total points
WindowOf(c, total) ==
    WindowIndices(total, TruncIndex(total, c.start_percent),
                  TruncIndex(total, c.duration_percent))

\* the factor call c applies at 0-based index i of a series of total points:
\* 1 outside its window (and everywhere, for a kind that selects no branch)
FactorAt(c, total, i) ==
    IF KnownKind(c.anomaly_type) /\ i \in WindowOf(c, total)
    THEN AnomalyFactor(c.anomaly_type, c.magnitude,
                       i - TruncIndex(total, c.start_percent),
                       TruncIndex(total, c.duration_percent))
    ELSE FScale

\* the original value at point p times the product of the two factors
TimesProduct(p) ==
    FMul(Original[p].value,
         FMul(FactorAt(FirstCall, Len(Original), p - 1),
              FactorAt(SecondCall, Len(Original), p - 1)))

\* the series the two calls give when made in the other order
Swapped ==
    InjectedData(InjectedData(Original, SecondCall.anomaly_type,
                              SecondCall.start_percent, SecondCall.duration_percent,
                              SecondCall.magnitude),
                 FirstCall.anomaly_type, FirstCall.start_percent,
                 FirstCall.duration_percent, FirstCall.magnitude)

\* both calls are drops over the same window
TwoDrops ==
    /\ FirstCall.anomaly_type = "drop"
    /\ SecondCall.anomaly_type = "drop"
    /\ WindowOf(FirstCall, Len(Original)) = WindowOf(SecondCall, Len(Original))

\* x and y differ by no more than the rounding of a few operations on a value
\* of the size of v: one part in FScale of v, and four steps of the grid
WithinRounding(x, y, v) == Abs(x - y) <= Abs(v) \div FScale + 4

\* C14 as stated: after two inject_anomaly calls on the same series the value at
\* every index equals the original value times the product of the two per-index
\* factors, the result is the same when the calls are made in the other order,
\* and two drops over the same window leave each window point at 0.09 times its
\* original value.
C14_ComposeExactly ==
    Composed =>
        /\ \A p \in 1..Len(data) : data[p].value = TimesProduct(p)
        /\ \A p \in 1..Len(data) : data[p].value = Swapped[p].value
        /\ TwoDrops =>
              \A i \in WindowOf(FirstCall, Len(Original)) :
                  data[i + 1].value = FMul(900, Original[i + 1].value)

\* C14, amended: the three equalities hold up to the rounding of the
\* multiplications (each call rounds its product, so v*f1*f2, v*f2*f1 and
\* v*(f1*f2) are three roundings of the same real number), and the series keeps
\* its length and timestamps.
C14_ComposeWithinRounding ==
    Composed =>
        /\ Len(data) = Len(Original)
        /\ \A p \in 1..Len(data) :
              /\ data[p].timestamp = Original[p].timestamp
              /\ WithinRounding(data[p].value, TimesProduct(p), Original[p].value)
              /\ WithinRounding(data[p].value, Swapped[p].value, Original[p].value)
        /\ TwoDrops =>
              \A i \in WindowOf(FirstCall, Len(Original)) :
                  WithinRounding(data[i + 1].value, FMul(900, Original[i + 1].value),
                                 Original[i + 1].value)

\* a spike over the last points went first and a gradual ramp over the whole
\* series second: the windows overlap, and some point was scaled by both
C14_Witness ==
    /\ Composed
    /\ FirstCall.anomaly_type = "spike"
    /\ SecondCall.anomaly_type = "gradual"
    /\ WindowOf(FirstCall, Len(Original)) \cap WindowOf(SecondCall, Len(Original)) # {}
    /\ WindowOf(FirstCall, Len(Original)) # WindowOf(SecondCall, Len(Original))
    /\ \E p \in 1..Len(data) :
          /\ FactorAt(FirstCall, Len(Original), p - 1) # FScale
          /\ FactorAt(SecondCall, Len(Original), p - 1) # FScale
          /\ data[p].value # Original[p].value

----------------------------------------------------------------------------
(* generate_incident_scenario with a scenario type it does not know *)

\* a request to /api/scenarios/<segment> was answered
ScenarioAnswered ==
    /\ pc = "answered"
    /\ Len(request.path) = 3
    /\ request.path[2] = "scenarios"

\* the anomaly kinds of the series of call k of a bundle
SeriesAnomalies(bundle, k) ==
    {bundle.metrics[k].series[j].anomaly : j \in 1..Len(bundle.metrics[k].series)}

\* the bundle is the cpu_spike one: its root cause is the CPU hot loop, its cpu
\* and latency series carry an injected anomaly, its memory and error-rate
\* series carry none, and it has no request-rate series
IsCpuSpikeBundle(bundle) ==
    /\ bundle.root_cause = "CPU hot loop in payment processing code"
    /\ Len(bundle.metrics) = 4
    /\ bundle.metrics[1].metric = "cpu_usage"
    /\ SeriesAnomalies(bundle, 1) = {"spike"}
    /\ bundle.metrics[2].metric = "latency"
    /\ SeriesAnomalies(bundle, 2) = {"gradual", "spike"}
    /\ bundle.metrics[3].metric = "memory_usage"
    /\ SeriesAnomalies(bundle, 3) = {"none"}
    /\ bundle.metrics[4].metric = "error_rate"
    /\ SeriesAnomalies(bundle, 4) = {"none"}

\* C15: generate_incident_scenario called (for one of the environments dev,
\* staging, prod) with a scenario type other than cpu_spike, database_slowdown
\* or traffic_surge signals no error and returns the cpu_spike scenario bundle.
C15_UnknownScenarioFallsBack ==
    (/\ ScenarioAnswered
     /\ response.handler = "get_scenario"
     /\ request.path[3] \notin ScenarioTypes
     /\ request.environment \in Environments) =>
        /\ response.status = 200
        /\ response.error = "none"
        /\ IsCpuSpikeBundle(response.body)

\* the scenario type "memory_leak" was asked for prod and the cpu_spike bundle
\* came back
C15_Witness ==
    /\ ScenarioAnswered
    /\ request.path[3] = "memory_leak"
    /\ request.environment = "prod"
    /\ response.handler = "get_scenario"
    /\ response.status = 200
    /\ IsCpuSpikeBundle(response.body)

----------------------------------------------------------------------------
(* The series the wrappers summarize, for the requests the HTTP layer accepts *)

\* a request to a metric endpoint was answered
MetricAnswered ==
    /\ pc = "answered"
    /\ Len(request.path) = 3
    /\ request.path[2] = "metrics"

\* the request passes the validation of hours and names one of the environments
AcceptedRequest ==
    /\ request.hours \in MinQueryHours..MaxQueryHours
    /\ request.environment \in Environments

\* C16: for every metric request accepted by the HTTP layer (hours in 1..168,
\* environment dev, staging or prod, anomaly on or off), every series a
\* per-metric wrapper passes to calculate_statistics has exactly 12*hours >= 12
\* points, and calculate_statistics never fails on it.
C16_WrappersNeverSummarizeEmpty ==
    (MetricAnswered /\ AcceptedRequest) =>
        /\ response.status = 200
        /\ response.error = "none"
        /\ Len(response.body.series) >= 1
        /\ \A k \in 1..Len(response.body.series) :
              /\ response.body.series[k].points = 12 * request.hours
              /\ response.body.series[k].points >= 12
              /\ response.body.series[k].summary = "ok"

\* the latency endpoint was asked for the shortest accepted window with the
\* anomaly on: its three series have 12 points each and were summarized
C16_Witness ==
    /\ MetricAnswered
    /\ AcceptedRequest
    /\ request.path[3] = "latency"
    /\ request.hours = MinQueryHours
    /\ request.anomaly
    /\ response.status = 200
    /\ Len(response.body.series) = 3
    /\ \A k \in 1..3 : /\ response.body.series[k].points = 12
                       /\ response.body.series[k].summary = "ok"
                       /\ response.body.series[k].anomaly # "none"

----------------------------------------------------------------------------
(* Routing of /api/scenarios/list *)

\* C17: a GET request for the path /api/scenarios/list is answered by the
\* list_scenarios handler, with the list of the three scenario types, not with
\* a generated incident scenario bundle.
C17_ListAnsweredByListScenarios ==
    (ScenarioAnswered /\ request.path[3] = "list") =>
        /\ response.handler = "list_scenarios"
        /\ response.body = ScenarioList

====
